---- MODULE Spec2Model ----
(***************************************************************************)
(* State machine of List<D> (crates/ui/src/list/list.rs): selection and    *)
(* navigation, mouse handlers of rendered rows, the query-input handler    *)
(* and the supervising search task it spawns.                              *)
(***************************************************************************)
EXTENDS Integers, Sequences, FiniteSets, TLC

\* ---------------------------------------------------------------- bounds
MaxItems == 2      \* items_count() ranges over 0..MaxItems
MaxLen == 2        \* longest raw query text
MaxRun == 4        \* longest run of one navigation action that is counted
TickMs == 50       \* granularity of the clock

\* ------------------------------------------------------ program constants
DelayMs == 100     \* Timer::after(Duration::from_millis(100))

\* ------------------------------------------------------------ Option<T>
None == <<>>
Some(x) == <<x>>
UnwrapOr(o, d) == IF o = None THEN d ELSE o[1]

\* --------------------------------------------------------------- strings
Chars == {"a", " "}
Whitespace == {" "}
Texts == UNION {[1..n -> Chars] : n \in 0..MaxLen}

RECURSIVE TrimStart(_)
TrimStart(s) ==
    IF s # <<>> /\ Head(s) \in Whitespace THEN TrimStart(Tail(s)) ELSE s

RECURSIVE TrimEnd(_)
TrimEnd(s) ==
    IF s # <<>> /\ s[Len(s)] \in Whitespace
    THEN TrimEnd(SubSeq(s, 1, Len(s) - 1))
    ELSE s

\* str::trim
trim(s) == TrimEnd(TrimStart(s))

Min(a, b) == IF a < b THEN a ELSE b

VARIABLES
    selected_index,       \* List::selected_index : Option<usize>
    right_clicked_index,  \* List::right_clicked_index : Option<usize>
    loading,              \* List::loading
    last_query,           \* List::last_query : Option<String>
    query_input,          \* List::query_input is Some
    query_text,           \* text of the query input
    items_count,          \* delegate.items_count()
    delegate_selected,    \* last index given to delegate.set_selected_index
    spawned,              \* supervising tasks alive in the executor
    frame,                \* what the last render pass put on screen
    next_run,             \* SelectNext actions since no selection, -1: n/a
    prev_run,             \* SelectPrev actions since no selection, -1: n/a
    last_change,          \* the latest Change event: trimmed text, searched,
                          \* and the argument of the latest perform_search
    fx                    \* calls issued to the collaborators by the last step

vars == <<selected_index, right_clicked_index, loading, last_query,
          query_input, query_text, items_count, delegate_selected,
          spawned, frame, next_run, prev_run, last_change, fx>>

Indexes == 0..MaxItems
OptIndexes == {None} \cup {Some(i) : i \in Indexes}

\* the record of one step: its name, the row it was aimed at, the calls made
\* to the delegate (confirm, set_selected_index, cancel, perform_search), to
\* cx.notify and to the scroll handle, the suspended tasks whose handle it
\* replaced, for a task step whether self._search_task holds that task, and
\* for a render pass what render_initial answered ("-": it was not asked)
NoFx(op) ==
    [op |-> op, arg |-> None, confirm |-> <<>>, set_selected |-> <<>>,
     cancel |-> 0, notify |-> 0, scroll |-> <<>>, search |-> <<>>,
     superseded |-> 0, current |-> TRUE, initial |-> "-"]

Init ==
    /\ selected_index = None
    /\ right_clicked_index = None
    /\ loading = FALSE
    /\ last_query = None
    /\ query_input \in BOOLEAN
    /\ query_text = <<>>
    /\ items_count \in 0..MaxItems
    /\ delegate_selected = None
    /\ spawned = {}
    /\ frame = [body |-> "none", rows |-> 0, out_handler |-> FALSE]
    /\ next_run = 0
    /\ prev_run = 0
    /\ last_change = None
    /\ fx = NoFx("new")

\* ------------------------------------------------------------ navigation
\* the run counters once the selection was set by something else
RunsBroken == next_run' = -1 /\ prev_run' = -1
RunsReset == next_run' = 0 /\ prev_run' = 0
Bump(run) == IF run >= 0 /\ run < MaxRun THEN run + 1 ELSE -1

\* a scroll that always goes back to the top
ScrollToFirst(sel) == IF sel # None THEN <<0>> ELSE <<>>

\* scroll_to_selected_item
ScrollToSelected(sel) == IF sel # None THEN <<sel[1]>> ELSE <<>>

\* confirm without the early return
ConfirmCallsUnguarded(sel, count) == <<sel>>

\* on_action_confirm: the calls it makes
ConfirmCalls(sel, count) == IF count = 0 THEN <<>> ELSE <<sel>>
ConfirmNotify(count) == IF count = 0 THEN 0 ELSE 1

SetSelectedIndex(ix) ==
    /\ selected_index' = ix
    /\ delegate_selected' = ix
    /\ fx' = [NoFx("set_selected_index") EXCEPT !.set_selected = <<ix>>]
    /\ IF ix = None THEN RunsReset ELSE RunsBroken
    /\ UNCHANGED <<right_clicked_index, loading, last_query, query_input,
                   query_text, items_count, spawned, frame, last_change>>

\* cancel that writes the field without notifying the delegate
OnActionCancelSilent ==
    /\ selected_index' = None
    /\ fx' = [NoFx("Cancel") EXCEPT !.cancel = 1, !.notify = 1]
    /\ RunsReset
    /\ UNCHANGED <<right_clicked_index, loading, last_query, query_input,
                   query_text, items_count, spawned, frame, last_change,
                   delegate_selected>>

OnActionCancel ==
    /\ selected_index' = None
    /\ delegate_selected' = None
    /\ fx' = [NoFx("Cancel") EXCEPT !.set_selected = <<None>>,
                                    !.cancel = 1, !.notify = 1]
    /\ RunsReset
    /\ UNCHANGED <<right_clicked_index, loading, last_query, query_input,
                   query_text, items_count, spawned, frame, last_change>>

OnActionConfirm ==
    /\ fx' = [NoFx("Confirm") EXCEPT
                 !.confirm = ConfirmCalls(selected_index, items_count),
                 !.notify = ConfirmNotify(items_count)]
    /\ UNCHANGED <<selected_index, right_clicked_index, loading, last_query,
                   query_input, query_text, items_count, delegate_selected,
                   spawned, frame, next_run, prev_run, last_change>>

\* at index 0 the selection stays where it is instead of wrapping
SelectPrevIndexNoWrap(sel, count) ==
    LET selected == UnwrapOr(sel, 0)
    IN  IF selected > 0 THEN Some(selected - 1) ELSE Some(0)

SelectPrevIndex(sel, count) ==
    LET selected == UnwrapOr(sel, 0)
    IN  IF selected > 0 THEN Some(selected - 1) ELSE Some(count - 1)

OnActionSelectPrev ==
    /\ IF items_count = 0
       THEN /\ fx' = NoFx("SelectPrev")
            /\ UNCHANGED <<selected_index, delegate_selected,
                           next_run, prev_run>>
       ELSE /\ selected_index' = SelectPrevIndex(selected_index, items_count)
            /\ delegate_selected' = selected_index'
            /\ fx' = [NoFx("SelectPrev") EXCEPT
                         !.set_selected = <<selected_index'>>,
                         !.scroll = ScrollToSelected(selected_index'),
                         !.notify = 1]
            /\ prev_run' = Bump(prev_run)
            /\ next_run' = -1
    /\ UNCHANGED <<right_clicked_index, loading, last_query, query_input,
                   query_text, items_count, spawned, frame, last_change>>

\* the comparison against the count is off by one
SelectNextIndexOffByOne(sel, count) ==
    IF sel # None
    THEN IF sel[1] < count THEN Some(sel[1] + 1) ELSE Some(0)
    ELSE Some(0)

SelectNextIndex(sel, count) ==
    IF sel # None
    THEN IF sel[1] < count - 1 THEN Some(sel[1] + 1) ELSE Some(0)
    ELSE Some(0)

\* select_next without the early return on an empty collection
OnActionSelectNextUnguarded ==
    /\ selected_index' = SelectNextIndex(selected_index, items_count)
    /\ delegate_selected' = selected_index'
    /\ fx' = [NoFx("SelectNext") EXCEPT
                 !.set_selected = <<selected_index'>>,
                 !.scroll = ScrollToSelected(selected_index'),
                 !.notify = 1]
    /\ next_run' = Bump(next_run)
    /\ prev_run' = -1
    /\ UNCHANGED <<right_clicked_index, loading, last_query, query_input,
                   query_text, items_count, spawned, frame, last_change>>

OnActionSelectNext ==
    /\ IF items_count = 0
       THEN /\ fx' = NoFx("SelectNext")
            /\ UNCHANGED <<selected_index, delegate_selected,
                           next_run, prev_run>>
       ELSE /\ selected_index' = SelectNextIndex(selected_index, items_count)
            /\ delegate_selected' = selected_index'
            /\ fx' = [NoFx("SelectNext") EXCEPT
                         !.set_selected = <<selected_index'>>,
                         !.scroll = ScrollToSelected(selected_index'),
                         !.notify = 1]
            /\ next_run' = Bump(next_run)
            /\ prev_run' = -1
    /\ UNCHANGED <<right_clicked_index, loading, last_query, query_input,
                   query_text, items_count, spawned, frame, last_change>>

\* ---------------------------------------------------------- mouse, render
\* the initial view offered whatever the text of the query input
RenderBodyIgnoresText(ri) ==
    IF query_input /\ ri THEN "initial"
    ELSE IF items_count = 0 THEN "empty"
    ELSE "list"

\* the body render() chooses; ri: render_initial() returned Some
RenderBody(ri) ==
    IF query_input /\ query_text = <<>> /\ ri THEN "initial"
    ELSE IF items_count = 0 THEN "empty"
    ELSE "list"

Render ==
    \E ri \in BOOLEAN :
        /\ frame' = [body |-> RenderBody(ri),
                     rows |-> IF RenderBody(ri) = "list"
                              THEN items_count ELSE 0,
                     out_handler |-> right_clicked_index # None]
        /\ fx' = [NoFx("render") EXCEPT
                     !.initial = IF query_input /\ query_text = <<>>
                                 THEN IF ri THEN "Some" ELSE "None"
                                 ELSE "-"]
        /\ UNCHANGED <<selected_index, right_clicked_index, loading,
                       last_query, query_input, query_text, items_count,
                       delegate_selected, spawned, next_run, prev_run,
                       last_change>>

\* a left press that confirms before it stores the row
LeftMouseDownConfirmFirst(ix) ==
    /\ ix < frame.rows
    /\ right_clicked_index' = None
    /\ selected_index' = Some(ix)
    /\ fx' = [NoFx("LeftMouseDown") EXCEPT
                 !.arg = Some(ix),
                 !.confirm = ConfirmCalls(selected_index, items_count),
                 !.notify = ConfirmNotify(items_count)]
    /\ RunsBroken
    /\ UNCHANGED <<loading, last_query, query_input, query_text,
                   items_count, delegate_selected, spawned, frame,
                   last_change>>

\* on_mouse_down(MouseButton::Left) of the row rendered for ix
LeftMouseDown(ix) ==
    /\ ix < frame.rows
    /\ right_clicked_index' = None
    /\ selected_index' = Some(ix)
    /\ fx' = [NoFx("LeftMouseDown") EXCEPT
                 !.arg = Some(ix),
                 !.confirm = ConfirmCalls(selected_index', items_count),
                 !.notify = ConfirmNotify(items_count)]
    /\ RunsBroken
    /\ UNCHANGED <<loading, last_query, query_input, query_text,
                   items_count, delegate_selected, spawned, frame,
                   last_change>>

\* a right press that selects the row as well
RightMouseDownSelects(ix) ==
    /\ ix < frame.rows
    /\ right_clicked_index' = Some(ix)
    /\ selected_index' = Some(ix)
    /\ fx' = [NoFx("RightMouseDown") EXCEPT !.arg = Some(ix), !.notify = 1]
    /\ RunsBroken
    /\ UNCHANGED <<loading, last_query, query_input,
                   query_text, items_count, delegate_selected, spawned,
                   frame, last_change>>

\* on_mouse_down(MouseButton::Right) of the row rendered for ix
RightMouseDown(ix) ==
    /\ ix < frame.rows
    /\ right_clicked_index' = Some(ix)
    /\ fx' = [NoFx("RightMouseDown") EXCEPT !.arg = Some(ix), !.notify = 1]
    /\ UNCHANGED <<selected_index, loading, last_query, query_input,
                   query_text, items_count, delegate_selected, spawned,
                   frame, next_run, prev_run, last_change>>

\* an outside press that cancels the selection together with the mark
MouseDownOutDeselects ==
    /\ frame.out_handler
    /\ right_clicked_index' = None
    /\ selected_index' = None
    /\ fx' = [NoFx("MouseDownOut") EXCEPT !.notify = 1]
    /\ RunsReset
    /\ UNCHANGED <<loading, last_query, query_input,
                   query_text, items_count, delegate_selected, spawned,
                   frame, last_change>>

\* on_mouse_down_out, attached when the mark was set at render time
MouseDownOut ==
    /\ frame.out_handler
    /\ right_clicked_index' = None
    /\ fx' = [NoFx("MouseDownOut") EXCEPT !.notify = 1]
    /\ UNCHANGED <<selected_index, loading, last_query, query_input,
                   query_text, items_count, delegate_selected, spawned,
                   frame, next_run, prev_run, last_change>>

\* the delegate's collection changes
DelegateItems(n) ==
    /\ n # items_count
    /\ items_count' = n
    /\ fx' = NoFx("items")
    /\ IF selected_index = None THEN RunsReset ELSE RunsBroken
    /\ UNCHANGED <<selected_index, right_clicked_index, loading, last_query,
                   query_input, query_text, delegate_selected, spawned,
                   frame, last_change>>

\* ------------------------------------------------------------ the search
\* cx.spawn(async move { search.await; ... }); ready: search is Task::ready
NewTask(text, ready) ==
    [text |-> text, pc |-> "search", search_done |-> ready,
     since_done |-> 0, timer |-> 0, current |-> TRUE]

\* the previous task detached instead of dropped: it stays in the executor
DetachTask(tasks) == {[t EXCEPT !.current = FALSE] : t \in tasks}

\* self._search_task = ...: the previous handle is dropped, which cancels
\* the task it held
DropTask(tasks) == {}

\* InputEvent::Change(text); ready: perform_search returned a finished task
OnQueryInputChange(raw, ready) ==
    /\ query_input
    /\ query_text' = raw
    /\ IF Some(trim(raw)) = last_query
       THEN /\ fx' = NoFx("Change")
            /\ last_change' = Some([text |-> trim(raw), searched |-> FALSE,
                                     search_arg |->
                                         IF last_change = None THEN None
                                         ELSE last_change[1].search_arg])
            /\ UNCHANGED <<loading, spawned>>
       ELSE /\ loading' = TRUE
            /\ spawned' = DropTask(spawned) \cup {NewTask(trim(raw), ready)}
            /\ fx' = [NoFx("Change") EXCEPT
                         !.search = <<trim(raw)>>,
                         !.notify = 1,
                         !.superseded = Cardinality(spawned)]
            /\ last_change' = Some([text |-> trim(raw), searched |-> TRUE,
                                     search_arg |-> Some(trim(raw))])
    /\ UNCHANGED <<selected_index, right_clicked_index, last_query,
                   query_input, items_count, delegate_selected, frame,
                   next_run, prev_run>>

\* a text submit that falls through to the loading indicator
OnQueryInputPressEnterLoads ==
    /\ query_input
    /\ loading' = TRUE
    /\ fx' = [NoFx("PressEnter") EXCEPT
                 !.confirm = ConfirmCalls(selected_index, items_count),
                 !.notify = 1]
    /\ UNCHANGED <<selected_index, right_clicked_index, last_query,
                   query_input, query_text, items_count, delegate_selected,
                   spawned, frame, next_run, prev_run, last_change>>

\* InputEvent::PressEnter
OnQueryInputPressEnter ==
    /\ query_input
    /\ fx' = [NoFx("PressEnter") EXCEPT
                 !.confirm = ConfirmCalls(selected_index, items_count),
                 !.notify = ConfirmNotify(items_count)]
    /\ UNCHANGED <<selected_index, right_clicked_index, loading, last_query,
                   query_input, query_text, items_count, delegate_selected,
                   spawned, frame, next_run, prev_run, last_change>>

\* the task returned by perform_search finishes
SearchCompletes(t) ==
    /\ t.pc = "search" /\ ~t.search_done
    /\ spawned' = (spawned \ {t}) \cup {[t EXCEPT !.search_done = TRUE]}
    /\ fx' = NoFx("search_done")
    /\ UNCHANGED <<selected_index, right_clicked_index, loading, last_query,
                   query_input, query_text, items_count, delegate_selected,
                   frame, next_run, prev_run, last_change>>

\* the first update run without awaiting the search
TaskCommitUnawaited(t) ==
    /\ t.pc = "search"
    /\ last_query' = Some(t.text)
    /\ spawned' = (spawned \ {t}) \cup {[t EXCEPT !.pc = "timer"]}
    /\ fx' = [NoFx("TaskCommit") EXCEPT !.scroll = <<0>>,
                                        !.current = t.current]
    /\ UNCHANGED <<selected_index, right_clicked_index, loading,
                   query_input, query_text, items_count, delegate_selected,
                   frame, next_run, prev_run, last_change>>

\* loading cleared in the first update, before the delay
TaskCommitClears(t) ==
    /\ t.pc = "search" /\ t.search_done
    /\ last_query' = Some(t.text)
    /\ loading' = FALSE
    /\ spawned' = (spawned \ {t}) \cup {[t EXCEPT !.pc = "timer"]}
    /\ fx' = [NoFx("TaskCommit") EXCEPT !.scroll = <<0>>, !.notify = 1,
                                        !.current = t.current]
    /\ UNCHANGED <<selected_index, right_clicked_index,
                   query_input, query_text, items_count, delegate_selected,
                   frame, next_run, prev_run, last_change>>

\* search.await returns; first this.update, then the timer is armed
TaskCommit(t) ==
    /\ t.pc = "search" /\ t.search_done
    /\ last_query' = Some(t.text)
    /\ spawned' = (spawned \ {t}) \cup {[t EXCEPT !.pc = "timer"]}
    /\ fx' = [NoFx("TaskCommit") EXCEPT !.scroll = <<0>>,
                                        !.current = t.current]
    /\ UNCHANGED <<selected_index, right_clicked_index, loading,
                   query_input, query_text, items_count, delegate_selected,
                   frame, next_run, prev_run, last_change>>

\* a timer that is not awaited
TimerNotAwaited(t) == TRUE

\* Timer::after(100 ms) is over
TimerFired(t) == t.timer >= DelayMs

\* a final step that forgets set_loading(false)
TaskClearForgets(t) ==
    /\ t.pc = "timer" /\ TimerFired(t)
    /\ spawned' = spawned \ {t}
    /\ fx' = [NoFx("TaskClear") EXCEPT !.current = t.current]
    /\ UNCHANGED <<selected_index, right_clicked_index, last_query, loading,
                   query_input, query_text, items_count, delegate_selected,
                   frame, next_run, prev_run, last_change>>

\* the timer await returns; second this.update
TaskClear(t) ==
    /\ t.pc = "timer" /\ TimerFired(t)
    /\ loading' = FALSE
    /\ spawned' = spawned \ {t}
    /\ fx' = [NoFx("TaskClear") EXCEPT !.notify = 1, !.current = t.current]
    /\ UNCHANGED <<selected_index, right_clicked_index, last_query,
                   query_input, query_text, items_count, delegate_selected,
                   frame, next_run, prev_run, last_change>>

\* TickMs of time pass
Advance(t) ==
    [t EXCEPT !.since_done = IF t.search_done
                             THEN Min(DelayMs, t.since_done + TickMs)
                             ELSE t.since_done,
              !.timer = IF t.pc = "timer"
                        THEN Min(DelayMs, t.timer + TickMs)
                        ELSE t.timer]

Tick ==
    /\ \E t \in spawned : Advance(t) # t
    /\ spawned' = {Advance(t) : t \in spawned}
    /\ fx' = NoFx("tick")
    /\ UNCHANGED <<selected_index, right_clicked_index, loading, last_query,
                   query_input, query_text, items_count, delegate_selected,
                   frame, next_run, prev_run, last_change>>

\* ------------------------------------------------------- specifications
NextNav ==
    \/ \E ix \in OptIndexes : SetSelectedIndex(ix)
    \/ OnActionCancel
    \/ OnActionConfirm
    \/ OnActionSelectPrev
    \/ OnActionSelectNext
    \/ Render
    \/ \E ix \in Indexes : LeftMouseDown(ix)
    \/ \E ix \in Indexes : RightMouseDown(ix)
    \/ MouseDownOut
    \/ \E n \in 0..MaxItems : DelegateItems(n)
    \/ OnQueryInputPressEnter

NextTasks ==
    \/ \E raw \in Texts, ready \in BOOLEAN : OnQueryInputChange(raw, ready)
    \/ \E t \in spawned : SearchCompletes(t)
    \/ \E t \in spawned : TaskCommit(t)
    \/ \E t \in spawned : TaskClear(t)
    \/ Tick

Next == NextNav \/ NextTasks

Spec == Init /\ [][Next]_vars

\* the list while the text of the query input does not change: keyboard,
\* mouse, render passes and a delegate whose collection grows and shrinks
SpecNav == Init /\ [][NextNav]_vars

\* the list under query changes: the search tasks, the clock, the keyboard
\* actions and set_selected_index, over a collection of fixed size
NextSearch ==
    \/ \E ix \in OptIndexes : SetSelectedIndex(ix)
    \/ OnActionCancel
    \/ OnActionConfirm
    \/ OnActionSelectPrev
    \/ OnActionSelectNext
    \/ OnQueryInputPressEnter
    \/ NextTasks

SpecSearch == Init /\ [][NextSearch]_vars

\* the render passes of a list whose query text and collection change
NextRender ==
    \/ Render
    \/ \E n \in 0..MaxItems : DelegateItems(n)
    \/ NextTasks

SpecRender == Init /\ [][NextRender]_vars

\* query changes and the tasks they spawn, where every search returned by
\* perform_search completes, the executor polls every task that was woken,
\* and time passes
Fairness ==
    /\ WF_vars(\E t \in spawned : SearchCompletes(t))
    /\ WF_vars(\E t \in spawned : TaskCommit(t))
    /\ WF_vars(\E t \in spawned : TaskClear(t))
    /\ WF_vars(Tick)

SpecLive == Init /\ [][NextTasks]_vars /\ Fairness

\* ================================================================ claims
\* C1: no stale clear. A step of a supervising task that records the last
\* committed query (and resets the scroll position) or sets loading to false
\* is a step of the task self._search_task holds: a task whose handle was
\* replaced while it was suspended runs no step afterwards.
C1_NoStaleStep ==
    /\ fx.op \in {"TaskCommit", "TaskClear"} => fx.current
    /\ \A t \in spawned : t.current

\* a query change has replaced the handle of a suspended task
C1_Witness == fx.op = "Change" /\ fx.superseded = 1

\* C2: of two consecutive query-change events with equal trimmed texts,
\* perform_search is invoked for the first and not for the second.
C2_OneSearchForEqualTexts ==
    [][(fx'.op = "Change" /\ last_change # None
            /\ last_change[1].text = trim(query_text'))
        => (last_change[1].searched /\ fx'.search = <<>>)]_vars

C4_SetIndexInRange ==
    ((fx.op \in {"SelectNext", "SelectPrev"} /\ fx.set_selected # <<>>)
        \/ fx.op = "LeftMouseDown")
    => (selected_index # None /\ selected_index[1] < items_count)

\* C5: after the k-th consecutive SelectNext from no selection, over a
\* constant item count N > 0, selected_index = Some((k-1) mod N).
C5_NextRun ==
    next_run >= 1
    => /\ items_count > 0
       /\ selected_index = Some((next_run - 1) % items_count)

\* a run of SelectNext that has wrapped around a list of several items
C5_Witness == items_count > 1 /\ next_run > items_count

\* C6: after the k-th consecutive SelectPrev from no selection, over a
\* constant item count N > 0, selected_index = Some((N - k) mod N): N-1
\* first, then one less each time, from 0 back to N-1.
C6_PrevRun ==
    prev_run >= 1
    => /\ items_count > 0
       /\ selected_index = Some((items_count - prev_run) % items_count)

\* a run of SelectPrev that has wrapped around a list of several items
C6_Witness == items_count > 1 /\ prev_run > items_count

C8_ConfirmForwards ==
    [][fx'.op \in {"Confirm", "PressEnter"}
        => /\ fx'.confirm = IF items_count > 0
                            THEN <<selected_index>> ELSE <<>>
           /\ selected_index' = selected_index]_vars

\* Confirm on an empty collection while an index is selected
C8_Witness == fx.op = "Confirm" /\ items_count = 0 /\ selected_index # None

C10_LeftPressConfirms ==
    [][fx'.op = "LeftMouseDown"
        => /\ right_clicked_index' = None
           /\ selected_index' = fx'.arg
           /\ fx'.arg # None
           /\ items_count > 0 => fx'.confirm = <<fx'.arg>>]_vars

\* a left press whose row reached confirm, on a row other than the one the
\* delegate was last told through set_selected_index
C10_Witness ==
    /\ fx.op = "LeftMouseDown" /\ fx.confirm = <<selected_index>>
    /\ selected_index # delegate_selected

\* C11: a right press on rendered row i sets right_clicked_index = Some(i),
\* whatever the mark was before, leaves selected_index unchanged and calls
\* neither set_selected_index nor confirm of the delegate.
C11_RightPressMarks ==
    [][fx'.op = "RightMouseDown"
        => /\ fx'.arg # None
           /\ right_clicked_index' = fx'.arg
           /\ selected_index' = selected_index
           /\ delegate_selected' = delegate_selected
           /\ fx'.set_selected = <<>>
           /\ fx'.confirm = <<>>]_vars

\* a right press on a row other than the selected one
C11_Witness ==
    /\ fx.op = "RightMouseDown" /\ right_clicked_index = fx.arg
    /\ selected_index # None /\ selected_index # right_clicked_index

C13_SubmitBypassesSearch ==
    [][fx'.op = "PressEnter"
        => /\ fx'.confirm = IF items_count > 0
                            THEN <<selected_index>> ELSE <<>>
           /\ fx'.search = <<>>
           /\ fx'.superseded = 0
           /\ UNCHANGED <<spawned, loading, last_query, selected_index>>]_vars

\* a text submit that reached confirm while a search was in flight
C13_Witness ==
    /\ fx.op = "PressEnter" /\ fx.confirm = <<selected_index>>
    /\ selected_index # None /\ loading /\ spawned # {}

C15_OneBody ==
    [][fx'.op = "render"
        => /\ frame'.body \in {"initial", "empty", "list"}
           /\ (fx'.initial # "-") = (query_input /\ query_text = <<>>)
           /\ (frame'.body = "initial") = (fx'.initial = "Some")
           /\ (frame'.body = "empty")
                  = (fx'.initial # "Some" /\ items_count = 0)
           /\ (frame'.body = "list")
                  = (fx'.initial # "Some" /\ items_count > 0)
           /\ frame'.rows = IF frame'.body = "list"
                            THEN items_count ELSE 0]_vars

\* the initial view shown over a collection that is not empty
C15_Witness ==
    /\ fx.op = "render" /\ frame.body = "initial" /\ items_count > 0

\* C16: the steps of a supervising task are ordered. last_query is written
\* only by the task's first update, after its search has completed, in the
\* step that resets the scroll position to item 0, with loading still true;
\* loading goes from true to false only after the delay that follows, and
\* then last_query is the text of the most recently started search.
C16_TaskOrder ==
    [][/\ last_query' # last_query
            => /\ fx'.op = "TaskCommit" /\ fx'.scroll = <<0>>
               /\ loading /\ loading'
               /\ \E t \in spawned :
                     /\ t.pc = "search" /\ t.search_done
                     /\ last_query' = Some(t.text)
                     /\ [t EXCEPT !.pc = "timer"] \in spawned'
       /\ (loading /\ ~loading')
            => /\ last_change # None
               /\ last_query = last_change[1].search_arg
               /\ \E t \in spawned :
                     /\ t.pc = "timer" /\ t.timer >= DelayMs
                     /\ last_query = Some(t.text)]_vars

\* a task has finished after an earlier query had been committed
C16_Witness ==
    /\ fx.op = "TaskClear" /\ ~loading
    /\ last_query # None /\ last_query[1] # <<>>
    /\ last_change # None /\ last_change[1].search_arg = last_query

\* C17: the index last given to the delegate's set_selected_index is the
\* list's selected_index, in every state.
C17_DelegateKnowsSelection == delegate_selected = selected_index

\* C18: once loading is false again, last_query is the trimmed text of the
\* latest query-change event, which is also the argument of the latest
\* perform_search call.
C18_CommittedIsLatest ==
    (~loading /\ last_change # None)
    => /\ last_query = Some(last_change[1].text)
       /\ last_change[1].search_arg = Some(last_change[1].text)

\* C19: loading is true exactly while the task self._search_task holds is
\* in flight, i.e. started by a query change and not past its final step.
C19_LoadingIffInFlight ==
    /\ loading = (\E t \in spawned : t.current)
    /\ \A t \in spawned : t.pc \in {"search", "timer"}
    /\ (last_change = None) => ~loading

\* loading is true over a search that has not completed, after an earlier
\* search has been committed
C19_Witness ==
    /\ loading /\ last_query # None
    /\ \E t \in spawned : t.pc = "search" /\ ~t.search_done

\* C20: if from some point on no query-change event occurs, then loading
\* eventually is false and stays false.
C20_EventuallyIdle ==
    (<>[][fx'.op # "Change"]_vars) => <>[](~loading)

\* a search that was started has run to its end and left the list idle
C20_Witness ==
    /\ ~loading /\ spawned = {}
    /\ last_change # None /\ last_change[1].searched
    /\ last_query = Some(last_change[1].text)

====
